---------------------------- MODULE Spec2Model ----------------------------
(***************************************************************************)
(* A model of invpa (github.com/veryevilzed/invpa): the invoice package    *)
(* (ProcessFile, groupPagesByInvoice, selectPagesForAnalysis,              *)
(* analyzeInvoicePages, FindCounterparty, mergeCounterparties) and the two *)
(* batch orchestrators built on it (the reporter's main and the web        *)
(* server's processInvoices).                                              *)
(*                                                                         *)
(* The module holds five specifications over one set of variables:         *)
(*   SpecSelect  the page selector, applied to bounded page lists;         *)
(*   SpecFile    one call of ProcessFile, step by step;                    *)
(*   SpecMerge   mergeCounterparties, applied to bounded pairs of records;  *)
(*   Spec        one batch: a worker goroutine per file, the results       *)
(*               channel, and the collector loop with its matching calls;  *)
(*   SpecJob     one job of the web server: its record in the job store,   *)
(*               jobsMutex, processInvoices and the HTTP handlers.         *)
(* Each specification leaves the variables of the others at their idle     *)
(* values.  The external services (pdftoppm, the file system, the OpenAI   *)
(* chat-completion endpoint) are oracles: every answer they can give is    *)
(* drawn with \E from a bounded set.                                       *)
(***************************************************************************)
EXTENDS Integers, Sequences, FiniteSets, TLC

VARIABLES
    \* ---- SpecSelect
    selPc,              \* "idle" | "in" (argument chosen) | "out" (returned)
    selIn,              \* the argument pageIndices
    selOut,             \* the slice selectPagesForAnalysis returned
    \* ---- SpecFile: the locals of one ProcessFile call
    fpc,                \* "idle" | "start" | "grouping" | "loop" | "returned" | "panicked"
    pathExt,            \* filepath.Ext(filePath), as written in the path
    imageContents,      \* [][]byte: one image per rendered page
    groupErr,           \* the error groupPagesByInvoice returned, "" for nil
    pageGroups,         \* map[string][]int
    todo,               \* keys of pageGroups the range loop has not visited
    finalInvoices,      \* []Invoice
    ferr,               \* the error ProcessFile returned, "" for nil
    calls,              \* history: the external calls issued, in order
    \* ---- SpecBatch
    variant,            \* "idle" | "reporter" | "web"
    wpc,                \* per file: "run" | "done" (the goroutine returned)
    wret,               \* per file: what its ProcessFile call returned
    resultsChan,        \* the buffered channel's content
    crashed,            \* an unrecovered panic ended the process
    cpc,                \* collector: "wait" | "recv" | "call" | "matching" | "end"
    allResults,
    uniqueCounterparties,
    existingForSearch,
    successfulCount,
    errorCount,
    corpus,             \* the registry serialized into the matching request in flight
    lastResp,           \* the last matching response received
    findRet,            \* what FindCounterparty last returned
    matchCalls,         \* history: matching requests issued
    nextId,             \* history: uuid.New() calls made
    \* ---- SpecMerge
    mergePc,            \* "idle" | "in" (arguments chosen) | "out" (returned)
    mergeExisting,      \* the argument existing
    mergeNew,           \* the argument newData
    merged,             \* the record mergeCounterparties returned
    \* ---- SpecJob
    jobs,               \* the job store: map[string]*Job
    jobsMutex,          \* the goroutine holding the mutex, or Free
    upc,                \* handleUpload: "idle" | "start" | "done"
    ppc,                \* processInvoices: its position
    perr,               \* the message processInvoices is about to pass to setJobError
    invoiceFiles,       \* len(invoiceFiles)
    resIdx,             \* results the collector loop has gone through
    reportGenerated,    \* generateExcelReport returned nil
    jwpc,               \* per file: the worker goroutine's position
    hpc,                \* per handler: its position
    hseen,              \* per handler: the job fields its last response was built from
    requests,           \* requests served or being served
    jcrashed            \* an unrecovered panic ended the server

selVars   == <<selPc, selIn, selOut>>
fileVars  == <<fpc, pathExt, imageContents, groupErr, pageGroups, todo,
               finalInvoices, ferr, calls>>
batchVars == <<variant, wpc, wret, resultsChan, crashed, cpc, allResults,
               uniqueCounterparties, existingForSearch, successfulCount,
               errorCount, corpus, lastResp, findRet, matchCalls, nextId>>
mergeVars == <<mergePc, mergeExisting, mergeNew, merged>>
jobVars   == <<jobs, jobsMutex, upc, ppc, perr, invoiceFiles, resIdx, reportGenerated,
               jwpc, hpc, hseen, requests, jcrashed>>
vars      == <<selVars, fileVars, batchVars, mergeVars, jobVars>>

-----------------------------------------------------------------------------
(* Bounds of the model. *)

\* Longest page list handed to the selector in SpecSelect.
MaxLen == 6
\* Largest page ordinal in those lists.
MaxOrd == 4
\* Most pages a document renders to in SpecFile.
MaxPages == 6
\* Longest page list of a group in a grouping response, the whole-document
\* lists aside.
MaxListLen == 2

-----------------------------------------------------------------------------
(* Generic helpers. *)

Range(s) == {s[i] : i \in 1..Len(s)}

SeqsUpTo(S, n) == UNION {[1..k -> S] : k \in 0..n}

IsAscending(s) == \A i \in 1..(Len(s) - 1) : s[i] <= s[i + 1]

IsStrictlyAscending(s) == \A i \in 1..(Len(s) - 1) : s[i] < s[i + 1]

IsInjective(s) == \A i, j \in 1..Len(s) : s[i] = s[j] => i = j

\* sort.Ints: the argument's elements in increasing order (insertion sort).
RECURSIVE InsertSorted(_, _)
InsertSorted(s, x) ==
    IF s = <<>> THEN <<x>>
    ELSE IF x <= Head(s) THEN <<x>> \o s
    ELSE <<Head(s)>> \o InsertSorted(Tail(s), x)

RECURSIVE SortInts(_)
SortInts(s) ==
    IF s = <<>> THEN <<>>
    ELSE InsertSorted(SortInts(SubSeq(s, 1, Len(s) - 1)), s[Len(s)])

-----------------------------------------------------------------------------
(* selectPagesForAnalysis *)

\* Groups of at most this many pages are returned as they are.
MaxAllPages == 4
\* Pages taken from each end of a longer group.
EdgePages == 2

\* One of the two "for _, idx := range ..." loops: append every idx that the
\* selected map does not hold yet.  The map holds exactly the elements of
\* result, so it is read off result.
RECURSIVE AddUnselected(_, _)
AddUnselected(result, idxs) ==
    IF idxs = <<>> THEN result
    ELSE AddUnselected(IF Head(idxs) \in Range(result) THEN result
                       ELSE Append(result, Head(idxs)),
                       Tail(idxs))

\* A faulty variant: every page of the group is returned, sorted.
selectPagesForAnalysis_AllSorted(pageIndices) == SortInts(pageIndices)

\* A faulty variant: the edges are taken before the slice is sorted.
selectPagesForAnalysis_Unsorted(pageIndices) ==
    IF Len(pageIndices) <= MaxAllPages THEN pageIndices
    ELSE LET n      == Len(pageIndices)
             first  == AddUnselected(<<>>, SubSeq(pageIndices, 1, EdgePages))
             result == AddUnselected(first, SubSeq(pageIndices, n - EdgePages + 1, n))
         IN  SortInts(result)

selectPagesForAnalysis(pageIndices) ==
    IF Len(pageIndices) <= MaxAllPages THEN pageIndices
    ELSE LET sorted == SortInts(pageIndices)
             n      == Len(sorted)
             first  == AddUnselected(<<>>, SubSeq(sorted, 1, EdgePages))
             result == AddUnselected(first, SubSeq(sorted, n - EdgePages + 1, n))
         IN  SortInts(result)

-----------------------------------------------------------------------------
(* SpecSelect: the selector applied to every bounded page list. *)

SelectIdle == selPc = "idle" /\ selIn = <<>> /\ selOut = <<>>

SelectInit ==
    /\ selPc = "in"
    /\ selIn \in SeqsUpTo(0..MaxOrd, MaxLen)
    /\ selOut = <<>>

SelectCall ==
    /\ selPc = "in"
    /\ selOut' = selectPagesForAnalysis(selIn)
    /\ selPc' = "out"
    /\ UNCHANGED <<selIn, fileVars, batchVars, mergeVars, jobVars>>

-----------------------------------------------------------------------------
(* Data of the invoice package. *)

\* A pointer is a sequence: <<>> is nil, <<v>> points at v.
NilPtr == <<>>
Ptr(v) == <<v>>

\* type Counterparty; id "" is the zero value (omitempty).
Counterparty(name, vat, country, address, iban, phone) ==
    [ID |-> "", Name |-> name, VAT |-> vat, Country |-> country,
     Address |-> address, SWIFT |-> "", IBAN |-> iban, Phone |-> phone,
     Fax |-> "", Email |-> "", Website |-> ""]

\* type Invoice.
Invoice(number, counterparty) ==
    [Type |-> 1, Number |-> number, Date |-> "2024-01-02", TotalAmount |-> 100,
     TaxAmount |-> 0, Purpose |-> "services", Counterparty |-> counterparty]

\* The counterparties the extraction service reads off the documents: the
\* same company under two spellings (one VAT, the second with an IBAN), and
\* another company without a VAT.
AcmeShort == Counterparty("Acme", "V1", "DE", "Addr1", "", "")
AcmeLong  == Counterparty("Acme LLC", "V1", "DE", "Addr2", "I1", "")
Beta      == Counterparty("Beta", "", "FR", "Addr3", "", "P3")

\* The bytes of the image of page i (zero-based).
Bytes(i) == <<"page", i>>

-----------------------------------------------------------------------------
(* ProcessFile and the functions it calls. *)

\* The extensions of the paths handed to ProcessFile.
PathExts == {".pdf", ".PDF", ".png", ".jpg", ".jpeg", ".JPG", ".txt", ""}

\* strings.ToLower on those extensions.
ToLower(e) ==
    CASE e = ".PDF" -> ".pdf"
      [] e = ".JPG" -> ".jpg"
      [] OTHER      -> e

\* What pdftoppm and the file system can do to convertPDFToImages: fail at
\* one of its steps, or leave n page files behind.
PdfOutcomes ==
    {[fail |-> f, pages |-> 0] : f \in {"mkdirtemp", "pdftoppm", "readdir", "readfile"}}
    \cup {[fail |-> "", pages |-> n] : n \in 0..MaxPages}

\* convertPDFToImages: the page images in file-name order, or an error.
convertPDFToImages(o) ==
    IF o.fail # "" THEN [images |-> <<>>, err |-> o.fail]
    ELSE IF o.pages = 0
         THEN [images |-> <<>>, err |-> "pdftoppm did not generate any images"]
         ELSE [images |-> [i \in 1..o.pages |-> Bytes(i - 1)], err |-> ""]

\* The keys a grouping response may use.
GroupKeys == {"A", "B"}

\* The page ordinals 0..n-1 in order.
FullRange(n) == [i \in 1..n |-> i - 1]

Reverse(s) == [i \in 1..Len(s) |-> s[Len(s) + 1 - i]]

\* The ordinals a response names for a document of n pages: its first and
\* last page and the nearest ordinal outside the document on either side.
NamedOrdinals(n) == {-1, 0, n - 1, n}

\* The first and the second half of the document's pages, in page order.
FirstHalf(n) == [i \in 1..(n \div 2) |-> i - 1]
SecondHalf(n) == [i \in 1..(n - (n \div 2)) |-> (n \div 2) + i - 1]

\* The page lists of a response: short lists of those ordinals, the whole
\* document in page order and in reverse, and its two halves.
PageLists(n) ==
    SeqsUpTo(NamedOrdinals(n), MaxListLen)
    \cup {FullRange(n), Reverse(FullRange(n)), FirstHalf(n), SecondHalf(n)}

\* Every map[string][]int over the keys (JSON null is the empty map).
ParsedGroups(n) ==
    UNION {[K -> PageLists(n)] : K \in SUBSET GroupKeys}

\* The ways a chat-completion call fails before its content is usable.
CallErrs == {"transport", "no choices", "unmarshal"}

\* What the grouping call can come back with.
GroupingAnswers(n) ==
    {[err |-> e, groups |-> <<>>] : e \in CallErrs}
    \cup {[err |-> "", groups |-> g] : g \in ParsedGroups(n)}

\* groupPagesByInvoice: (groups, err).
groupPagesByInvoice(answer) ==
    IF answer.err # "" THEN [groups |-> <<>>, err |-> answer.err]
    ELSE [groups |-> answer.groups, err |-> ""]

\* A faulty variant of the fallback: the range starts at page 1.
FallbackGroups_FromOne(images) ==
    "single_invoice" :> [i \in 1..(Len(images) - 1) |-> i]

\* The fallback of ProcessFile: one group holding every page index.
FallbackGroups(images) ==
    "single_invoice" :> [i \in 1..Len(images) |-> i - 1]

\* The invoice the extraction service reads off the images it is sent: its
\* number stands for what is printed on exactly those pages.
InvoiceOn(images) == Invoice(images, AcmeShort)

\* What the extraction call can come back with.
ExtractionAnswers(images) ==
    {[err |-> e, invoice |-> NilPtr] : e \in CallErrs}
    \cup {[err |-> "", invoice |-> Ptr(InvoiceOn(images))]}

\* analyzeInvoicePages: (*Invoice, err).
analyzeInvoicePages(answer) ==
    IF answer.err # "" THEN [invoice |-> NilPtr, err |-> answer.err]
    ELSE [invoice |-> answer.invoice, err |-> ""]

\* imageContents[pageIndex] is in range.
InRange(images, pageIndex) == 0 <= pageIndex /\ pageIndex < Len(images)

\* sort.Ints sorts the slice the map holds, so the map sees it.
SortedInPlace(pageIndices) ==
    IF Len(pageIndices) <= MaxAllPages THEN pageIndices ELSE SortInts(pageIndices)

-----------------------------------------------------------------------------
(* SpecFile: one call of ProcessFile. *)

FileIdle ==
    /\ fpc = "idle" /\ pathExt = "" /\ imageContents = <<>> /\ groupErr = ""
    /\ pageGroups = <<>> /\ todo = {} /\ finalInvoices = <<>> /\ ferr = ""
    /\ calls = <<>>

FileInit ==
    /\ fpc = "start"
    /\ pathExt \in PathExts
    /\ imageContents = <<>> /\ groupErr = "" /\ pageGroups = <<>> /\ todo = {}
    /\ finalInvoices = <<>> /\ ferr = "" /\ calls = <<>>

\* return nil, err
ReturnError(e) ==
    /\ fpc' = "returned"
    /\ ferr' = e
    /\ UNCHANGED <<imageContents, finalInvoices>>

\* A faulty variant: the file is read before the extension is looked at.
ReadPages_ReadsFirst ==
    /\ fpc = "start"
    /\ calls' = Append(calls, [kind |-> "readfile"])
    /\ IF ToLower(pathExt) \in {".png", ".jpg", ".jpeg"}
       THEN /\ imageContents' = <<Bytes(0)>>
            /\ fpc' = "grouping"
            /\ UNCHANGED <<finalInvoices, ferr>>
       ELSE ReturnError("unsupported file type")
    /\ UNCHANGED <<pathExt, groupErr, pageGroups, todo, selVars, batchVars, mergeVars, jobVars>>

\* Step 1 of ProcessFile: the switch on the extension and the check that
\* there is a page.
ReadPages ==
    /\ fpc = "start"
    /\ LET e == ToLower(pathExt) IN
        CASE e = ".pdf" ->
               \E o \in PdfOutcomes :
                 LET r == convertPDFToImages(o) IN
                 /\ calls' = Append(calls, [kind |-> "pdftoppm"])
                 /\ IF r.err # ""
                    THEN ReturnError("failed to convert PDF to images")
                    ELSE IF Len(r.images) = 0
                    THEN ReturnError("no images found to process")
                    ELSE /\ imageContents' = r.images
                         /\ fpc' = "grouping"
                         /\ UNCHANGED <<finalInvoices, ferr>>
          [] e \in {".png", ".jpg", ".jpeg"} ->
               \E readErr \in BOOLEAN :
                 /\ calls' = Append(calls, [kind |-> "readfile"])
                 /\ IF readErr
                    THEN ReturnError("failed to read image file")
                    ELSE /\ imageContents' = <<Bytes(0)>>
                         /\ fpc' = "grouping"
                         /\ UNCHANGED <<finalInvoices, ferr>>
          [] OTHER ->
               /\ ReturnError("unsupported file type")
               /\ UNCHANGED calls
    /\ UNCHANGED <<pathExt, groupErr, pageGroups, todo, selVars, batchVars, mergeVars, jobVars>>

\* A faulty variant: a grouping error ends ProcessFile with that error.
GroupPages_NoFallback ==
    /\ fpc = "grouping"
    /\ \E answer \in GroupingAnswers(Len(imageContents)) :
         LET r == groupPagesByInvoice(answer) IN
         /\ groupErr' = r.err
         /\ pageGroups' = r.groups
         /\ todo' = DOMAIN r.groups
         /\ ferr' = r.err
         /\ fpc' = IF r.err # "" THEN "returned" ELSE "loop"
    /\ calls' = Append(calls, [kind |-> "grouping", images |-> imageContents])
    /\ UNCHANGED <<pathExt, imageContents, finalInvoices, selVars, batchVars, mergeVars, jobVars>>

\* Step 2: the grouping call and the fallback to one group.
GroupPages ==
    /\ fpc = "grouping"
    /\ \E answer \in GroupingAnswers(Len(imageContents)) :
         LET r == groupPagesByInvoice(answer)
             groups == IF r.err # "" THEN FallbackGroups(imageContents) ELSE r.groups
         IN  /\ groupErr' = r.err
             /\ pageGroups' = groups
             /\ todo' = DOMAIN groups
    /\ calls' = Append(calls, [kind |-> "grouping", images |-> imageContents])
    /\ fpc' = "loop"
    /\ UNCHANGED <<pathExt, imageContents, finalInvoices, ferr, selVars, batchVars, mergeVars, jobVars>>

\* A faulty variant: the images are collected in page order.
ImagesAt_PageOrder(images, pages) ==
    [i \in 1..Len(pages) |-> images[SortInts(pages)[i] + 1]]

\* The images of the selected pages: imagesToAnalyze.
ImagesAt(images, pages) == [i \in 1..Len(pages) |-> images[pages[i] + 1]]

\* A faulty variant: an extraction error ends ProcessFile with that error.
OnAnalysisResult_Abort(invoices, r) ==
    IF r.err # ""
    THEN [fpc |-> "returned", ferr |-> r.err, invoices |-> <<>>]
    ELSE [fpc |-> "loop", ferr |-> "", invoices |-> Append(invoices, r.invoice[1])]

\* The end of the loop body: an error is printed and the loop continues
\* with the next group, an invoice is appended to finalInvoices.
OnAnalysisResult(invoices, r) ==
    IF r.err # ""
    THEN [fpc |-> "loop", ferr |-> "", invoices |-> invoices]
    ELSE [fpc |-> "loop", ferr |-> "", invoices |-> Append(invoices, r.invoice[1])]

\* Step 3, one iteration of "for invoiceID, pageIndices := range pageGroups"
\* (Go visits the keys in no fixed order): the pages are selected, their
\* images collected and sent to the extraction call.
AnalyzeGroup(invoiceID) ==
    /\ fpc = "loop"
    /\ invoiceID \in todo
    /\ LET pageIndices    == pageGroups[invoiceID]
           pagesToAnalyze == selectPagesForAnalysis(pageIndices)
       IN  /\ \A i \in 1..Len(pagesToAnalyze) : InRange(imageContents, pagesToAnalyze[i])
           /\ LET imagesToAnalyze == ImagesAt(imageContents, pagesToAnalyze) IN
              \E answer \in ExtractionAnswers(imagesToAnalyze) :
                LET r    == analyzeInvoicePages(answer)
                    next == OnAnalysisResult(finalInvoices, r)
                IN  /\ calls' = Append(calls, [kind |-> "extract", group |-> invoiceID,
                                               images |-> imagesToAnalyze,
                                               invoice |-> r.invoice])
                    /\ finalInvoices' = next.invoices
                    /\ fpc' = next.fpc
                    /\ ferr' = next.ferr
           /\ pageGroups' = [pageGroups EXCEPT ![invoiceID] = SortedInPlace(pageIndices)]
    /\ todo' = todo \ {invoiceID}
    /\ UNCHANGED <<pathExt, imageContents, groupErr, selVars, batchVars, mergeVars, jobVars>>

\* The same iteration when a selected index is outside imageContents: the
\* index expression panics (runtime error: index out of range) and nothing
\* recovers it.
IndexOutOfRange(invoiceID) ==
    /\ fpc = "loop"
    /\ invoiceID \in todo
    /\ LET pageIndices    == pageGroups[invoiceID]
           pagesToAnalyze == selectPagesForAnalysis(pageIndices)
       IN  /\ \E i \in 1..Len(pagesToAnalyze) : ~InRange(imageContents, pagesToAnalyze[i])
           /\ pageGroups' = [pageGroups EXCEPT ![invoiceID] = SortedInPlace(pageIndices)]
    /\ fpc' = "panicked"
    /\ UNCHANGED <<pathExt, imageContents, groupErr, todo, finalInvoices, ferr, calls,
                   selVars, batchVars, mergeVars, jobVars>>

\* return finalInvoices, nil
ReturnInvoices ==
    /\ fpc = "loop"
    /\ todo = {}
    /\ fpc' = "returned"
    /\ UNCHANGED <<pathExt, imageContents, groupErr, pageGroups, todo, finalInvoices,
                   ferr, calls, selVars, batchVars, mergeVars, jobVars>>

-----------------------------------------------------------------------------
(* FindCounterparty and mergeCounterparties. *)

\* A faulty variant: a non-empty optional field of newData always wins.
mergeCounterparties_NewWins(existing, newData) ==
    LET fill(f) == IF newData[f] # "" THEN newData[f] ELSE existing[f]
    IN  [existing EXCEPT !.VAT = fill("VAT"), !.SWIFT = fill("SWIFT"),
                         !.IBAN = fill("IBAN"), !.Phone = fill("Phone"),
                         !.Fax = fill("Fax"), !.Email = fill("Email"),
                         !.Website = fill("Website")]

\* A faulty variant: an empty name, country or address is filled in as well.
mergeCounterparties_FillsAll(existing, newData) ==
    LET fill(f) == IF existing[f] = "" /\ newData[f] # "" THEN newData[f] ELSE existing[f]
    IN  [existing EXCEPT !.VAT = fill("VAT"), !.SWIFT = fill("SWIFT"),
                         !.IBAN = fill("IBAN"), !.Phone = fill("Phone"),
                         !.Fax = fill("Fax"), !.Email = fill("Email"),
                         !.Website = fill("Website"), !.Name = fill("Name"),
                         !.Country = fill("Country"), !.Address = fill("Address")]

\* A faulty variant: merged starts from newData and is topped up from existing.
mergeCounterparties_FromNew(existing, newData) ==
    LET fill(f) == IF existing[f] = "" /\ newData[f] # "" THEN newData[f] ELSE existing[f]
    IN  [newData EXCEPT !.VAT = fill("VAT"), !.SWIFT = fill("SWIFT"),
                        !.IBAN = fill("IBAN"), !.Phone = fill("Phone"),
                        !.Fax = fill("Fax"), !.Email = fill("Email"),
                        !.Website = fill("Website"), !.ID = ""]

\* mergeCounterparties: existing, with each empty optional field taken from
\* newData.
mergeCounterparties(existing, newData) ==
    LET fill(f) == IF existing[f] = "" /\ newData[f] # "" THEN newData[f] ELSE existing[f]
    IN  [existing EXCEPT !.VAT = fill("VAT"), !.SWIFT = fill("SWIFT"),
                         !.IBAN = fill("IBAN"), !.Phone = fill("Phone"),
                         !.Fax = fill("Fax"), !.Email = fill("Email"),
                         !.Website = fill("Website")]

\* The ids of a registry's entries.
RegistryIds(existing) == {existing[i].ID : i \in 1..Len(existing)}

\* What the matching call can come back with: a failure, or a parsed
\* MatchResponse naming an id of the list, the empty id or an id not in it.
MatchAnswers(existing) ==
    {[err |-> e, match_found |-> FALSE, matched_id |-> ""] : e \in CallErrs}
    \cup {[err |-> "", match_found |-> m, matched_id |-> id] :
            m \in BOOLEAN, id \in RegistryIds(existing) \cup {"", "no-such-id"}}

\* No response: the value of lastResp before any matching call returned.
NoAnswer == [err |-> "none", match_found |-> FALSE, matched_id |-> ""]

\* A faulty variant: the request goes out for an empty registry too.
IssuesMatchCall_Always(existing) == TRUE

\* The guard in front of the request: an empty list returns (nil, nil) at once.
IssuesMatchCall(existing) == Len(existing) # 0

\* A faulty variant: an id that is not in the list is taken for "no match".
FindCounterparty_SilentNoMatch(existing, newCounterparty, answer) ==
    IF ~IssuesMatchCall(existing) \/ answer.err # "" \/ ~answer.match_found
    THEN [matched |-> NilPtr, err |-> IF IssuesMatchCall(existing) THEN answer.err ELSE ""]
    ELSE LET hits == {i \in 1..Len(existing) : existing[i].ID = answer.matched_id} IN
         IF hits # {}
         THEN LET i == CHOOSE h \in hits : \A g \in hits : h <= g
              IN  [matched |-> Ptr(mergeCounterparties(existing[i], newCounterparty)),
                   err |-> ""]
         ELSE [matched |-> NilPtr, err |-> ""]

\* FindCounterparty: (*Counterparty, err), given the answer of the matching
\* call (not looked at when no request is issued).
FindCounterparty(existing, newCounterparty, answer) ==
    IF ~IssuesMatchCall(existing) THEN [matched |-> NilPtr, err |-> ""]
    ELSE IF answer.err # "" THEN [matched |-> NilPtr, err |-> answer.err]
    ELSE IF answer.match_found
    THEN LET hits == {i \in 1..Len(existing) : existing[i].ID = answer.matched_id} IN
         IF hits # {}
         THEN LET i == CHOOSE h \in hits : \A g \in hits : h <= g
              IN  [matched |-> Ptr(mergeCounterparties(existing[i], newCounterparty)),
                   err |-> ""]
         ELSE [matched |-> NilPtr, err |-> "matched id does not exist in the provided list"]
    ELSE [matched |-> NilPtr, err |-> ""]

-----------------------------------------------------------------------------
(* SpecMerge: mergeCounterparties applied to bounded pairs of records. *)

\* The fields of type Counterparty: those a merge may fill in, and the rest.
OptionalFields == {"VAT", "SWIFT", "IBAN", "Phone", "Fax", "Email", "Website"}
KeptFields == {"ID", "Name", "Country", "Address"}
FieldNames == OptionalFields \cup KeptFields

\* Most fields of an argument that are not empty.
MaxFilled == 2

\* The sets of fields an argument has filled in.
Fillings == {F \in SUBSET FieldNames : Cardinality(F) <= MaxFilled}

\* A Counterparty whose fields in F hold text and whose other fields are "".
CounterpartyWith(F, text) == [f \in FieldNames |-> IF f \in F THEN text ELSE ""]

MergeIdle ==
    /\ mergePc = "idle"
    /\ mergeExisting = CounterpartyWith({}, "")
    /\ mergeNew = CounterpartyWith({}, "")
    /\ merged = CounterpartyWith({}, "")

\* The arguments: the registry's record and the extracted one, whose text is
\* either the registry's or another.
MergeInit ==
    /\ mergePc = "in"
    /\ \E F \in Fillings : mergeExisting = CounterpartyWith(F, "old")
    /\ \E F \in Fillings, text \in {"old", "new"} : mergeNew = CounterpartyWith(F, text)
    /\ merged = CounterpartyWith({}, "")

MergeCall ==
    /\ mergePc = "in"
    /\ merged' = mergeCounterparties(mergeExisting, mergeNew)
    /\ mergePc' = "out"
    /\ UNCHANGED <<mergeExisting, mergeNew, selVars, fileVars, batchVars, jobVars>>

-----------------------------------------------------------------------------
(* SpecBatch: the reporter's main and the web server's processInvoices. *)

\* Files of a batch.
NumFiles == 2
Files == 1..NumFiles

\* The invoices the extraction service reads off the documents of a batch.
BatchInvoices == {Invoice("INV-1", AcmeShort), Invoice("INV-2", AcmeLong)}

\* What a ProcessFile call does to its caller: it returns (nil, err), returns
\* (invoices, nil) with one invoice per group at most, or panics.
ProcessFileOutcomes ==
    {[kind |-> "err", err |-> "failed to convert PDF to images", invoices |-> <<>>],
     [kind |-> "panic", err |-> "", invoices |-> <<>>]}
    \cup {[kind |-> "ok", err |-> "", invoices |-> invs] :
            invs \in SeqsUpTo(BatchInvoices, Cardinality(GroupKeys))}

\* uuid.New().String(): the n-th identifier drawn, each one new.
UUIDs == <<"uuid-1", "uuid-2", "uuid-3", "uuid-4", "uuid-5", "uuid-6">>

BatchIdle ==
    /\ variant = "idle" /\ wpc = <<>> /\ wret = <<>> /\ resultsChan = <<>>
    /\ crashed = FALSE /\ cpc = "idle" /\ allResults = <<>>
    /\ uniqueCounterparties = <<>> /\ existingForSearch = <<>>
    /\ successfulCount = 0 /\ errorCount = 0 /\ corpus = <<>>
    /\ lastResp = NoAnswer /\ findRet = [matched |-> NilPtr, err |-> ""]
    /\ matchCalls = 0 /\ nextId = 0

\* The state when the goroutines have been started: "go func(f string)" for
\* every file, the collector at wg.Wait().
BatchInit ==
    /\ variant \in {"reporter", "web"}
    /\ wpc = [f \in Files |-> "run"]
    /\ wret = [f \in Files |-> [kind |-> "running", err |-> "", invoices |-> <<>>]]
    /\ resultsChan = <<>>
    /\ crashed = FALSE
    /\ cpc = "wait"
    /\ allResults = <<>> /\ uniqueCounterparties = <<>> /\ existingForSearch = <<>>
    /\ successfulCount = 0 /\ errorCount = 0
    /\ corpus = <<>> /\ lastResp = NoAnswer
    /\ findRet = [matched |-> NilPtr, err |-> ""]
    /\ matchCalls = 0 /\ nextId = 0

\* A faulty variant: the last invoice of the file is reported.
WorkerResult_Last(f, out) ==
    IF out.kind = "err"
    THEN [SourceFile |-> f, Invoice |-> NilPtr, ErrorMessage |-> out.err]
    ELSE IF Len(out.invoices) > 0
    THEN [SourceFile |-> f, Invoice |-> Ptr(out.invoices[Len(out.invoices)]),
          ErrorMessage |-> ""]
    ELSE [SourceFile |-> f, Invoice |-> NilPtr,
          ErrorMessage |-> "No invoices found in file"]

\* The Result a worker sends for what ProcessFile returned: the error, the
\* first invoice alone, or "No invoices found in file".
WorkerResult(f, out) ==
    IF out.kind = "err"
    THEN [SourceFile |-> f, Invoice |-> NilPtr, ErrorMessage |-> out.err]
    ELSE IF Len(out.invoices) > 0
    THEN [SourceFile |-> f, Invoice |-> Ptr(out.invoices[1]), ErrorMessage |-> ""]
    ELSE [SourceFile |-> f, Invoice |-> NilPtr,
          ErrorMessage |-> "No invoices found in file"]

\* A faulty variant: a file without invoices is not reported at all.
Worker_NoSendOnEmpty(f) ==
    /\ ~crashed
    /\ wpc[f] = "run"
    /\ \E out \in ProcessFileOutcomes :
         /\ wret' = [wret EXCEPT ![f] = out]
         /\ IF out.kind = "panic"
            THEN /\ crashed' = TRUE
                 /\ UNCHANGED <<wpc, resultsChan>>
            ELSE /\ Len(resultsChan) < NumFiles
                 /\ resultsChan' = IF out.kind = "ok" /\ Len(out.invoices) = 0
                                   THEN resultsChan
                                   ELSE Append(resultsChan, WorkerResult(f, out))
                 /\ wpc' = [wpc EXCEPT ![f] = "done"]
                 /\ UNCHANGED crashed
    /\ UNCHANGED <<variant, cpc, allResults, uniqueCounterparties, existingForSearch,
                   successfulCount, errorCount, corpus, lastResp, findRet, matchCalls,
                   nextId, selVars, fileVars, mergeVars, jobVars>>

\* The goroutine of file f: ProcessFile, then one send on resultsChan (its
\* capacity is the number of files).  A panic in ProcessFile is recovered
\* nowhere and ends the process.
Worker(f) ==
    /\ ~crashed
    /\ wpc[f] = "run"
    /\ \E out \in ProcessFileOutcomes :
         /\ wret' = [wret EXCEPT ![f] = out]
         /\ IF out.kind = "panic"
            THEN /\ crashed' = TRUE
                 /\ UNCHANGED <<wpc, resultsChan>>
            ELSE /\ Len(resultsChan) < NumFiles
                 /\ resultsChan' = Append(resultsChan, WorkerResult(f, out))
                 /\ wpc' = [wpc EXCEPT ![f] = "done"]
                 /\ UNCHANGED crashed
    /\ UNCHANGED <<variant, cpc, allResults, uniqueCounterparties, existingForSearch,
                   successfulCount, errorCount, corpus, lastResp, findRet, matchCalls,
                   nextId, selVars, fileVars, mergeVars, jobVars>>

\* A faulty variant: the collector does not wait for the goroutines.
WaitReturns_NoWait ==
    /\ ~crashed
    /\ cpc = "wait"
    /\ cpc' = "recv"
    /\ UNCHANGED <<variant, wpc, wret, resultsChan, crashed, allResults,
                   uniqueCounterparties, existingForSearch, successfulCount, errorCount,
                   corpus, lastResp, findRet, matchCalls, nextId, selVars, fileVars, mergeVars, jobVars>>

\* wg.Wait() returns once every goroutine is done; close(resultsChan).
WaitReturns ==
    /\ ~crashed
    /\ cpc = "wait"
    /\ \A f \in Files : wpc[f] = "done"
    /\ cpc' = "recv"
    /\ UNCHANGED <<variant, wpc, wret, resultsChan, crashed, allResults,
                   uniqueCounterparties, existingForSearch, successfulCount, errorCount,
                   corpus, lastResp, findRet, matchCalls, nextId, selVars, fileVars, mergeVars, jobVars>>

\* "for res := range resultsChan": the next result is appended to allResults
\* and counted; an error result is done with.
ReceiveResult ==
    /\ ~crashed
    /\ cpc = "recv"
    /\ resultsChan # <<>>
    /\ LET res == Head(resultsChan) IN
       /\ resultsChan' = Tail(resultsChan)
       /\ allResults' = Append(allResults, res)
       /\ IF res.ErrorMessage # ""
          THEN /\ errorCount' = errorCount + 1
               /\ UNCHANGED <<successfulCount, cpc>>
          ELSE /\ successfulCount' = successfulCount + 1
               /\ cpc' = "call"
               /\ UNCHANGED errorCount
    /\ UNCHANGED <<variant, wpc, wret, crashed, uniqueCounterparties, existingForSearch,
                   corpus, lastResp, findRet, matchCalls, nextId, selVars, fileVars, mergeVars, jobVars>>

\* res: the result in hand.  res.Invoice points into allResults' last entry.
ResCounterparty == allResults[Len(allResults)].Invoice[1].Counterparty
ResSourceFile == allResults[Len(allResults)].SourceFile

\* res.Invoice.Counterparty = cp, seen through the pointer allResults holds.
WithResCounterparty(cp) ==
    [allResults EXCEPT ![Len(allResults)].Invoice[1].Counterparty = cp]

\* The "Status" cell generateExcelReport writes for a result.
ReportStatus(res) == IF res.ErrorMessage # "" THEN res.ErrorMessage ELSE "OK"

\* The list handed to FindCounterparty.
MatchCorpus == existingForSearch

\* A faulty variant: after a failed matching call no identifier is assigned.
Deduplicate_NoIdOnError(r) ==
    IF r.err = "" /\ r.matched # NilPtr
    THEN /\ allResults' = WithResCounterparty(r.matched[1])
         /\ UNCHANGED <<uniqueCounterparties, existingForSearch, nextId>>
    ELSE LET fresh == variant = "web" /\ r.err = ""
             cp == IF fresh THEN [ResCounterparty EXCEPT !.ID = UUIDs[nextId + 1]]
                   ELSE ResCounterparty
         IN  /\ nextId' = IF fresh THEN nextId + 1 ELSE nextId
             /\ allResults' = WithResCounterparty(cp)
             /\ uniqueCounterparties' =
                  Append(uniqueCounterparties,
                         [SourceFile |-> ResSourceFile, Counterparty |-> cp])
             /\ existingForSearch' = Append(existingForSearch, cp)

\* A faulty variant: the reported registry gets the counterparty as it was
\* before the identifier was assigned.
Deduplicate_UniqueBeforeId(r) ==
    IF r.err = "" /\ r.matched # NilPtr
    THEN /\ allResults' = WithResCounterparty(r.matched[1])
         /\ UNCHANGED <<uniqueCounterparties, existingForSearch, nextId>>
    ELSE LET cp == IF variant = "web"
                   THEN [ResCounterparty EXCEPT !.ID = UUIDs[nextId + 1]]
                   ELSE ResCounterparty
         IN  /\ nextId' = IF variant = "web" THEN nextId + 1 ELSE nextId
             /\ allResults' = WithResCounterparty(cp)
             /\ uniqueCounterparties' =
                  Append(uniqueCounterparties,
                         [SourceFile |-> ResSourceFile, Counterparty |-> ResCounterparty])
             /\ existingForSearch' = Append(existingForSearch, cp)

\* A faulty variant: a matched counterparty is registered all the same.
Deduplicate_AppendsMatch(r) ==
    LET cp == IF r.err = "" /\ r.matched # NilPtr THEN r.matched[1]
              ELSE IF variant = "web"
              THEN [ResCounterparty EXCEPT !.ID = UUIDs[nextId + 1]]
              ELSE ResCounterparty
    IN  /\ nextId' = IF variant = "web" /\ r.matched = NilPtr THEN nextId + 1 ELSE nextId
        /\ allResults' = WithResCounterparty(cp)
        /\ uniqueCounterparties' =
             Append(uniqueCounterparties,
                    [SourceFile |-> ResSourceFile, Counterparty |-> cp])
        /\ existingForSearch' = Append(existingForSearch, cp)

\* The three branches after FindCounterparty returned r.
Deduplicate(r) ==
    IF r.err = "" /\ r.matched # NilPtr
    THEN /\ allResults' = WithResCounterparty(r.matched[1])
         /\ UNCHANGED <<uniqueCounterparties, existingForSearch, nextId>>
    ELSE LET cp == IF variant = "web"
                   THEN [ResCounterparty EXCEPT !.ID = UUIDs[nextId + 1]]
                   ELSE ResCounterparty
         IN  /\ nextId' = IF variant = "web" THEN nextId + 1 ELSE nextId
             /\ allResults' = WithResCounterparty(cp)
             /\ uniqueCounterparties' =
                  Append(uniqueCounterparties,
                         [SourceFile |-> ResSourceFile, Counterparty |-> cp])
             /\ existingForSearch' = Append(existingForSearch, cp)

\* The call of FindCounterparty: with an empty list it returns at once, else
\* the request with the serialized list goes out.
CallFindCounterparty ==
    /\ ~crashed
    /\ cpc = "call"
    /\ IF IssuesMatchCall(MatchCorpus)
       THEN /\ corpus' = MatchCorpus
            /\ matchCalls' = matchCalls + 1
            /\ cpc' = "matching"
            /\ UNCHANGED <<allResults, uniqueCounterparties, existingForSearch, nextId,
                           findRet>>
       ELSE LET r == FindCounterparty(MatchCorpus, ResCounterparty, NoAnswer) IN
            /\ findRet' = r
            /\ Deduplicate(r)
            /\ cpc' = "recv"
            /\ UNCHANGED <<corpus, matchCalls>>
    /\ UNCHANGED <<variant, wpc, wret, resultsChan, crashed, successfulCount, errorCount,
                   lastResp, selVars, fileVars, mergeVars, jobVars>>

\* The matching call returns and the collector takes one of its branches.
MatchReturns ==
    /\ ~crashed
    /\ cpc = "matching"
    /\ \E answer \in MatchAnswers(corpus) :
         LET r == FindCounterparty(corpus, ResCounterparty, answer) IN
         /\ lastResp' = answer
         /\ findRet' = r
         /\ Deduplicate(r)
    /\ cpc' = "recv"
    /\ UNCHANGED <<variant, wpc, wret, resultsChan, crashed, successfulCount, errorCount,
                   corpus, matchCalls, selVars, fileVars, mergeVars, jobVars>>

\* The range loop ends on the closed, drained channel.
CollectorDone ==
    /\ ~crashed
    /\ cpc = "recv"
    /\ resultsChan = <<>>
    /\ cpc' = "end"
    /\ UNCHANGED <<variant, wpc, wret, resultsChan, crashed, allResults,
                   uniqueCounterparties, existingForSearch, successfulCount, errorCount,
                   corpus, lastResp, findRet, matchCalls, nextId, selVars, fileVars, mergeVars, jobVars>>

-----------------------------------------------------------------------------
(* SpecJob: one job of the web server, from its upload to its end, with the  *)
(* two polling handlers.  A call of Lock and the section up to the matching *)
(* Unlock are one step each.                                                 *)

\* The job's key in the store.
JobId == "job-1"

\* Most requests the polling handlers serve.
MaxRequests == 2

\* The goroutines that lock jobsMutex; Free when nobody holds it.
Free == <<"free", 0>>
UploadG == <<"handleUpload", 0>>
ProcG == <<"processInvoices", 0>>
WorkerG(f) == <<"worker", f>>
StatusH == <<"handleStatus", 0>>
ResultDataH == <<"handleJobResultData", 0>>
Handlers == {StatusH, ResultDataH}

\* The values Job.Status is given.
JobStatuses == {"Processing", "Completed", "Error"}

\* An entry of Job.Log: the message's text and the file it names (0: none).
LogEntry(msg, f) == [msg |-> msg, file |-> f]

\* &Job{ID: jobID, Status: "Processing", Log: []string{"File uploaded successfully."}}
NewJob ==
    [ID |-> JobId, Status |-> "Processing",
     Log |-> <<LogEntry("File uploaded successfully.", 0)>>,
     Error |-> "", ResultPath |-> "", DownloadURL |-> "",
     TotalFiles |-> 0, ProcessedFiles |-> 0,
     AllResults |-> <<>>, UniqueCounterparties |-> <<>>]

\* The bodies of addLog, incrementProcessedCount and setJobError, and the
\* last section of processInvoices.
addLog(js, jobID, entry) ==
    IF jobID \in DOMAIN js THEN [js EXCEPT ![jobID].Log = Append(@, entry)] ELSE js

\* A faulty variant: a file is counted twice.
incrementProcessedCount_Twice(js, jobID) ==
    IF jobID \in DOMAIN js THEN [js EXCEPT ![jobID].ProcessedFiles = @ + 2] ELSE js

incrementProcessedCount(js, jobID) ==
    IF jobID \in DOMAIN js THEN [js EXCEPT ![jobID].ProcessedFiles = @ + 1] ELSE js

setJobError(js, jobID, errorMsg) ==
    IF jobID \in DOMAIN js
    THEN [js EXCEPT ![jobID].Status = "Error", ![jobID].Error = errorMsg,
                    ![jobID].Log = Append(@, LogEntry("[ERROR]", 0))]
    ELSE js

\* The results the collector hands over: one per file; the registry is the
\* collector's (Spec), here the files that were registered.
completeJob(js, jobID, n) ==
    IF jobID \in DOMAIN js
    THEN [js EXCEPT ![jobID].Status = "Completed",
                    ![jobID].ResultPath = "public/job-1.xlsx",
                    ![jobID].DownloadURL = "/public/job-1.xlsx",
                    ![jobID].AllResults = [i \in 1..n |-> i],
                    ![jobID].UniqueCounterparties = [i \in 1..n |-> i],
                    ![jobID].Log = Append(@, LogEntry("Successfully generated report", 0))]
    ELSE js

\* What a handler answered: the status code and the fields it encoded.
Response(code, status, processed, results) ==
    [code |-> code, Status |-> status, ProcessedFiles |-> processed, Results |-> results]
NoResponse == Response(0, "", 0, 0)
NotFound == Response(404, "", 0, 0)

JobIdle ==
    /\ jobs = <<>> /\ jobsMutex = Free /\ upc = "idle" /\ ppc = "idle" /\ perr = ""
    /\ invoiceFiles = 0 /\ resIdx = 0 /\ reportGenerated = FALSE /\ jwpc = <<>>
    /\ hpc = <<>> /\ hseen = <<>> /\ requests = 0 /\ jcrashed = FALSE

\* The server with an upload saved to disk: handleUpload is at its Lock.
JobInit ==
    /\ jobs = <<>> /\ jobsMutex = Free /\ upc = "start" /\ ppc = "idle" /\ perr = ""
    /\ invoiceFiles = 0 /\ resIdx = 0 /\ reportGenerated = FALSE /\ jwpc = <<>>
    /\ hpc = [h \in Handlers |-> "idle"]
    /\ hseen = [h \in Handlers |-> NoResponse]
    /\ requests = 0 /\ jcrashed = FALSE

\* jobsMutex.Lock() by goroutine g.
Lock(g) == ~jcrashed /\ jobsMutex = Free /\ jobsMutex' = g

\* The section of goroutine g ends: jobsMutex.Unlock().
Unlock(g) == ~jcrashed /\ jobsMutex = g /\ jobsMutex' = Free

UploadLock ==
    /\ upc = "start"
    /\ Lock(UploadG)
    /\ UNCHANGED <<jobs, upc, ppc, perr, invoiceFiles, resIdx, reportGenerated, jwpc,
                   hpc, hseen, requests, jcrashed, selVars, fileVars, batchVars, mergeVars>>

\* jobs[jobID] = &Job{...}; Unlock; go processInvoices(jobID).
UploadCreate ==
    /\ upc = "start"
    /\ Unlock(UploadG)
    /\ jobs' = (JobId :> NewJob)
    /\ upc' = "done"
    /\ ppc' = "log-unzip"
    /\ UNCHANGED <<perr, invoiceFiles, resIdx, reportGenerated, jwpc, hpc, hseen,
                   requests, jcrashed, selVars, fileVars, batchVars, mergeVars>>

\* The positions at which processInvoices is about to lock.
ProcLockPcs == {"log-unzip", "log-scan", "set-total", "log-found", "log-complete",
                "log-result", "complete", "error"}

ProcLock ==
    /\ ppc \in ProcLockPcs
    /\ Lock(ProcG)
    /\ UNCHANGED <<jobs, upc, ppc, perr, invoiceFiles, resIdx, reportGenerated, jwpc,
                   hpc, hseen, requests, jcrashed, selVars, fileVars, batchVars, mergeVars>>

\* processInvoices moves on without touching the job.
ProcStep(to, msg, n, idx, generated) ==
    /\ ~jcrashed
    /\ ppc' = to /\ perr' = msg /\ invoiceFiles' = n /\ resIdx' = idx
    /\ reportGenerated' = generated
    /\ UNCHANGED <<jobs, jobsMutex, upc, jwpc, hpc, hseen, requests, jcrashed,
                   selVars, fileVars, batchVars, mergeVars>>

\* A section of processInvoices: the job store becomes js.
ProcSection(js, to) ==
    /\ Unlock(ProcG)
    /\ jobs' = js
    /\ ppc' = to
    /\ UNCHANGED <<upc, perr, invoiceFiles, resIdx, reportGenerated, jwpc, hpc, hseen,
                   requests, jcrashed, selVars, fileVars, batchVars, mergeVars>>

\* addLog(jobID, msg) at position at.
ProcAddLog(at, msg, to) ==
    /\ ppc = at
    /\ ProcSection(addLog(jobs, JobId, LogEntry(msg, 0)), to)

\* os.ReadDir, the search for the .zip entry, unzip.
Unzip ==
    /\ ppc = "unzip"
    /\ \/ ProcStep("log-scan", perr, invoiceFiles, resIdx, reportGenerated)
       \/ \E msg \in {"Error reading job directory", "No zip file found in job directory.",
                      "Failed to unzip file"} :
            ProcStep("error", msg, invoiceFiles, resIdx, reportGenerated)

\* findInvoiceFiles and the check that it found a file.
Scan ==
    /\ ppc = "scan"
    /\ \/ ProcStep("error", "Error scanning for files", invoiceFiles, resIdx,
                   reportGenerated)
       \/ \E n \in 0..NumFiles :
            IF n = 0
            THEN ProcStep("error", "No invoice files found in the zip archive.",
                          invoiceFiles, resIdx, reportGenerated)
            ELSE ProcStep("set-total", perr, n, resIdx, reportGenerated)

\* jobs[jobID].TotalFiles = len(invoiceFiles)
SetTotalFiles ==
    /\ ppc = "set-total"
    /\ ProcSection([jobs EXCEPT ![JobId].TotalFiles = invoiceFiles], "log-found")

\* loadConfig and the key check; then "go func(f string)" for every file.
LoadConfigAndStart ==
    /\ ppc = "config"
    /\ ~jcrashed
    /\ \/ /\ \E msg \in {"Could not load config.json", "'openai_api_key' is not set"} :
               /\ perr' = msg
               /\ ppc' = "error"
          /\ UNCHANGED jwpc
       \/ /\ jwpc' = [f \in 1..invoiceFiles |-> "log"]
          /\ ppc' = "wait"
          /\ UNCHANGED perr
    /\ UNCHANGED <<jobs, jobsMutex, upc, invoiceFiles, resIdx, reportGenerated, hpc,
                   hseen, requests, jcrashed, selVars, fileVars, batchVars, mergeVars>>

\* wg.Wait() returns; close(resultsChan).
JobWaitReturns ==
    /\ ppc = "wait"
    /\ \A f \in DOMAIN jwpc : jwpc[f] = "done"
    /\ ProcStep("log-complete", perr, invoiceFiles, resIdx, reportGenerated)

\* One iteration of the collector loop, as far as the job goes: an error
\* result and a failed matching call are logged, other results are not.
Collect ==
    /\ ppc = "collect"
    /\ IF resIdx = invoiceFiles
       THEN ProcStep("report", perr, invoiceFiles, resIdx, reportGenerated)
       ELSE \E logs \in BOOLEAN :
              ProcStep(IF logs THEN "log-result" ELSE "collect", perr, invoiceFiles,
                       resIdx + 1, reportGenerated)

\* generateExcelReport.
GenerateReport ==
    /\ ppc = "report"
    /\ \/ ProcStep("complete", perr, invoiceFiles, resIdx, TRUE)
       \/ ProcStep("error", "Failed to generate Excel report", invoiceFiles, resIdx,
                   reportGenerated)

\* The last section: Status, ResultPath, DownloadURL, AllResults,
\* UniqueCounterparties and the closing log entry.
Complete ==
    /\ ppc = "complete"
    /\ ProcSection(completeJob(jobs, JobId, invoiceFiles), "returned")

\* A faulty variant: after setJobError processInvoices goes on to its last
\* section instead of returning.
SetError_NoReturn ==
    /\ ppc = "error"
    /\ ProcSection(setJobError(jobs, JobId, perr), "complete")

\* setJobError(jobID, msg); return.
SetError ==
    /\ ppc = "error"
    /\ ProcSection(setJobError(jobs, JobId, perr), "returned")

\* The worker goroutine of file f.
JobWorkerLock(f) ==
    /\ f \in DOMAIN jwpc
    /\ jwpc[f] \in {"log", "count"}
    /\ Lock(WorkerG(f))
    /\ UNCHANGED <<jobs, upc, ppc, perr, invoiceFiles, resIdx, reportGenerated, jwpc,
                   hpc, hseen, requests, jcrashed, selVars, fileVars, batchVars, mergeVars>>

\* addLog(jobID, "Processing f...")
JobWorkerAddLog(f) ==
    /\ f \in DOMAIN jwpc
    /\ jwpc[f] = "log"
    /\ Unlock(WorkerG(f))
    /\ jobs' = addLog(jobs, JobId, LogEntry("Processing", f))
    /\ jwpc' = [jwpc EXCEPT ![f] = "process"]
    /\ UNCHANGED <<upc, ppc, perr, invoiceFiles, resIdx, reportGenerated, hpc, hseen,
                   requests, jcrashed, selVars, fileVars, batchVars, mergeVars>>

\* invoice.ProcessFile returns, or panics and ends the server.
JobWorkerProcessFile(f) ==
    /\ f \in DOMAIN jwpc
    /\ jwpc[f] = "process"
    /\ ~jcrashed
    /\ \E panics \in BOOLEAN :
         /\ jcrashed' = panics
         /\ jwpc' = IF panics THEN jwpc ELSE [jwpc EXCEPT ![f] = "count"]
    /\ UNCHANGED <<jobs, jobsMutex, upc, ppc, perr, invoiceFiles, resIdx, reportGenerated,
                   hpc, hseen, requests, selVars, fileVars, batchVars, mergeVars>>

\* incrementProcessedCount(jobID); the send on resultsChan; wg.Done().
JobWorkerCount(f) ==
    /\ f \in DOMAIN jwpc
    /\ jwpc[f] = "count"
    /\ Unlock(WorkerG(f))
    /\ jobs' = incrementProcessedCount(jobs, JobId)
    /\ jwpc' = [jwpc EXCEPT ![f] = "done"]
    /\ UNCHANGED <<upc, ppc, perr, invoiceFiles, resIdx, reportGenerated, hpc, hseen,
                   requests, jcrashed, selVars, fileVars, batchVars, mergeVars>>

\* A request arrives at handler h, which locks for its lookup.
HandlerLock(h) ==
    /\ hpc[h] = "idle"
    /\ requests < MaxRequests
    /\ Lock(h)
    /\ hpc' = [hpc EXCEPT ![h] = "lookup"]
    /\ requests' = requests + 1
    /\ UNCHANGED <<jobs, upc, ppc, perr, invoiceFiles, resIdx, reportGenerated, jwpc,
                   hseen, jcrashed, selVars, fileVars, batchVars, mergeVars>>

\* job, ok := jobs[jobID]; Unlock.  handleStatus goes on to encode the job,
\* handleJobResultData to look at its Status; without the job both answer 404.
HandlerLookup(h) ==
    /\ hpc[h] = "lookup"
    /\ Unlock(h)
    /\ IF JobId \in DOMAIN jobs
       THEN /\ hpc' = [hpc EXCEPT ![h] = IF h = StatusH THEN "encode" ELSE "check"]
            /\ UNCHANGED hseen
       ELSE /\ hpc' = [hpc EXCEPT ![h] = "idle"]
            /\ hseen' = [hseen EXCEPT ![h] = NotFound]
    /\ UNCHANGED <<jobs, upc, ppc, perr, invoiceFiles, resIdx, reportGenerated, jwpc,
                   requests, jcrashed, selVars, fileVars, batchVars, mergeVars>>

\* Another goroutine is inside a section that writes the job.
WriterInSection == jobsMutex \notin ({Free} \cup Handlers)

\* What an unlocked read of Status and of ProcessedFiles gives: the field's
\* value, or, while a writer is in its section (a data race), any value.
StatusRead == IF WriterInSection THEN JobStatuses ELSE {jobs[JobId].Status}
ProcessedRead == IF WriterInSection THEN 0..NumFiles ELSE {jobs[JobId].ProcessedFiles}

\* json.NewEncoder(w).Encode(job) in handleStatus: the job's fields are read
\* with jobsMutex released.
StatusEncode ==
    /\ hpc[StatusH] = "encode"
    /\ ~jcrashed
    /\ \E st \in StatusRead, pf \in ProcessedRead :
         hseen' = [hseen EXCEPT ![StatusH] = Response(200, st, pf, 0)]
    /\ hpc' = [hpc EXCEPT ![StatusH] = "idle"]
    /\ UNCHANGED <<jobs, jobsMutex, upc, ppc, perr, invoiceFiles, resIdx, reportGenerated,
                   jwpc, requests, jcrashed, selVars, fileVars, batchVars, mergeVars>>

\* job.Status != "Completed" in handleJobResultData, read with jobsMutex
\* released.
ResultDataCheck ==
    /\ hpc[ResultDataH] = "check"
    /\ ~jcrashed
    /\ \E st \in StatusRead :
         IF st # "Completed"
         THEN /\ hpc' = [hpc EXCEPT ![ResultDataH] = "idle"]
              /\ hseen' = [hseen EXCEPT ![ResultDataH] = NotFound]
         ELSE /\ hpc' = [hpc EXCEPT ![ResultDataH] = "read"]
              /\ hseen' = [hseen EXCEPT ![ResultDataH] = Response(0, st, 0, 0)]
    /\ UNCHANGED <<jobs, jobsMutex, upc, ppc, perr, invoiceFiles, resIdx, reportGenerated,
                   jwpc, requests, jcrashed, selVars, fileVars, batchVars, mergeVars>>

\* job.AllResults and job.UniqueCounterparties are read and encoded.
ResultDataRead ==
    /\ hpc[ResultDataH] = "read"
    /\ ~jcrashed
    /\ hseen' = [hseen EXCEPT ![ResultDataH] =
                   Response(200, @.Status, 0, Len(jobs[JobId].AllResults))]
    /\ hpc' = [hpc EXCEPT ![ResultDataH] = "idle"]
    /\ UNCHANGED <<jobs, jobsMutex, upc, ppc, perr, invoiceFiles, resIdx, reportGenerated,
                   jwpc, requests, jcrashed, selVars, fileVars, batchVars, mergeVars>>

-----------------------------------------------------------------------------
(* The specifications. *)

InitSelect == SelectInit /\ FileIdle /\ BatchIdle /\ MergeIdle /\ JobIdle
NextSelect == SelectCall
SpecSelect == InitSelect /\ [][NextSelect]_vars

InitFile == SelectIdle /\ FileInit /\ BatchIdle /\ MergeIdle /\ JobIdle
NextFile ==
    \/ ReadPages
    \/ GroupPages
    \/ \E invoiceID \in todo : AnalyzeGroup(invoiceID)
    \/ \E invoiceID \in todo : IndexOutOfRange(invoiceID)
    \/ ReturnInvoices
SpecFile == InitFile /\ [][NextFile]_vars

Init == SelectIdle /\ FileIdle /\ BatchInit /\ MergeIdle /\ JobIdle
Next ==
    \/ \E f \in Files : Worker(f)
    \/ WaitReturns
    \/ ReceiveResult
    \/ CallFindCounterparty
    \/ MatchReturns
    \/ CollectorDone
Spec == Init /\ [][Next]_vars

\* The batch under the Go scheduler: a goroutine that can take a step takes
\* it, and a chat-completion call in flight comes back.
Fairness ==
    /\ \A f \in Files : WF_vars(Worker(f))
    /\ WF_vars(WaitReturns)
    /\ WF_vars(ReceiveResult)
    /\ WF_vars(CallFindCounterparty)
    /\ WF_vars(MatchReturns)
    /\ WF_vars(CollectorDone)
SpecLive == Init /\ [][Next]_vars /\ Fairness

InitMerge == SelectIdle /\ FileIdle /\ BatchIdle /\ MergeInit /\ JobIdle
NextMerge == MergeCall
SpecMerge == InitMerge /\ [][NextMerge]_vars

InitJob == SelectIdle /\ FileIdle /\ BatchIdle /\ MergeIdle /\ JobInit
NextJob ==
    \/ UploadLock
    \/ UploadCreate
    \/ ProcLock
    \/ ProcAddLog("log-unzip", "Unzipping uploaded file...", "unzip")
    \/ Unzip
    \/ ProcAddLog("log-scan", "Scanning for invoice files...", "scan")
    \/ Scan
    \/ SetTotalFiles
    \/ ProcAddLog("log-found", "Found files to process. Starting analysis...", "config")
    \/ LoadConfigAndStart
    \/ \E f \in Files : JobWorkerLock(f)
    \/ \E f \in Files : JobWorkerAddLog(f)
    \/ \E f \in Files : JobWorkerProcessFile(f)
    \/ \E f \in Files : JobWorkerCount(f)
    \/ JobWaitReturns
    \/ ProcAddLog("log-complete", "Analysis complete.", "collect")
    \/ Collect
    \/ ProcAddLog("log-result", "Error in / WARN: Could not match counterparty", "collect")
    \/ GenerateReport
    \/ Complete
    \/ SetError
    \/ \E h \in Handlers : HandlerLock(h)
    \/ \E h \in Handlers : HandlerLookup(h)
    \/ StatusEncode
    \/ ResultDataCheck
    \/ ResultDataRead
SpecJob == InitJob /\ [][NextJob]_vars

-----------------------------------------------------------------------------
(* Properties of the page selector (SpecSelect). *)

Min(S) == CHOOSE x \in S : \A y \in S : x <= y
Max(S) == CHOOSE x \in S : \A y \in S : y <= x
Count(s, x) == Cardinality({i \in 1..Len(s) : s[i] = x})

\* The second entry of s from below and from above, entries counted as often
\* as they occur.
SecondLowest(s) ==
    IF Count(s, Min(Range(s))) >= 2 THEN Min(Range(s))
    ELSE Min(Range(s) \ {Min(Range(s))})
SecondHighest(s) ==
    IF Count(s, Max(Range(s))) >= 2 THEN Max(Range(s))
    ELSE Max(Range(s) \ {Max(Range(s))})

\* The two lowest and the two highest entries of s, as a set.
Edges(s) == {Min(Range(s)), SecondLowest(s), SecondHighest(s), Max(Range(s))}

\* s and t hold the same entries, each as often.
SameEntries(s, t) ==
    /\ Len(s) = Len(t)
    /\ \A x \in Range(s) \cup Range(t) : Count(s, x) = Count(t, x)

\* C1: a group of at most 4 page ordinals, in any order, comes back with all
\* its ordinals in ascending order.
C1_SmallGroupAscending ==
    (selPc = "out" /\ Len(selIn) <= MaxAllPages)
        => (SameEntries(selOut, selIn) /\ IsAscending(selOut))

\* C2 as stated: a list of more than 4 ordinals, distinct or not, comes back
\* as exactly 4 ordinals in ascending order, its two lowest and two highest.
C2_ExactlyFourEdges ==
    (selPc = "out" /\ Len(selIn) > MaxAllPages)
        => /\ Len(selOut) = 2 * EdgePages
           /\ IsAscending(selOut)
           /\ Range(selOut) = Edges(selIn)

\* C2 as amended: a list of more than 4 ordinals comes back as the distinct
\* values among its two lowest and two highest entries, in strictly ascending
\* order; these are between 1 and 4 ordinals, and exactly 4 when the list's
\* entries are distinct.
C2_DistinctEdgesAscending ==
    (selPc = "out" /\ Len(selIn) > MaxAllPages)
        => /\ IsStrictlyAscending(selOut)
           /\ Range(selOut) = Edges(selIn)
           /\ Len(selOut) \in 1..(2 * EdgePages)
           /\ IsInjective(selIn) => Len(selOut) = 2 * EdgePages

\* A list with repeated entries was cut to fewer than 4 ordinals.
C2_RepeatedEntriesSelected ==
    /\ selPc = "out"
    /\ Len(selIn) > MaxAllPages
    /\ ~IsInjective(selIn)
    /\ Len(selOut) = 3

\* C29: for every input list the selector returns at most 4 ordinals, each
\* of which occurs in the input.
C29_AtMostFourFromInput ==
    selPc = "out"
        => /\ Len(selOut) <= 2 * EdgePages
           /\ Range(selOut) \subseteq Range(selIn)

\* A list of 6 entries was cut to 4 ordinals of the list.
C29_SixCutToFour ==
    /\ selPc = "out"
    /\ Len(selIn) = 6
    /\ Len(selOut) = 4
    /\ Range(selOut) \subseteq Range(selIn)
    /\ Range(selOut) # Range(selIn)

-----------------------------------------------------------------------------
(* Properties of ProcessFile (SpecFile). *)

\* The extraction calls issued so far, in order.
ExtractCalls == SelectSeq(calls, LAMBDA c : c.kind = "extract")

\* The invoices of the extraction calls that succeeded, in call order.
RECURSIVE InvoicesOf(_)
InvoicesOf(cs) ==
    IF cs = <<>> THEN <<>>
    ELSE (IF Head(cs).invoice = NilPtr THEN <<>> ELSE <<Head(cs).invoice[1]>>)
         \o InvoicesOf(Tail(cs))

\* The grouping call has returned.
PastGrouping == fpc \in {"loop", "returned", "panicked"} /\ Len(imageContents) > 0

\* C3: when groupPagesByInvoice returns an error for a document of N pages,
\* ProcessFile goes on with the one group "single_invoice" whose pages are
\* 0, 1, ..., N-1 in that order, analyses it, and returns without an error.
C3_GroupingFallback ==
    (PastGrouping /\ groupErr # "")
        => /\ DOMAIN pageGroups = {"single_invoice"}
           /\ pageGroups["single_invoice"] = FullRange(Len(imageContents))
           /\ fpc # "panicked"
           /\ fpc = "returned" => (ferr = "" /\ Len(ExtractCalls) = 1)

\* A document of several pages went through the fallback and gave an invoice.
C3_FallbackTaken ==
    /\ fpc = "returned"
    /\ groupErr # ""
    /\ Len(imageContents) > MaxAllPages
    /\ Len(finalInvoices) = 1

\* C4: a failed extraction of one group does not end the loop: once
\* ProcessFile returns from the loop it returns a nil error, every group has
\* had its extraction call, and the invoices returned are exactly those of
\* the calls that succeeded.
C4_ExtractionFailureSkipsGroup ==
    /\ PastGrouping => finalInvoices = InvoicesOf(ExtractCalls)
    /\ (PastGrouping /\ fpc = "returned")
          => /\ ferr = ""
             /\ {ExtractCalls[i].group : i \in 1..Len(ExtractCalls)} = DOMAIN pageGroups
             /\ Len(ExtractCalls) = Cardinality(DOMAIN pageGroups)

\* ProcessFile returned an invoice extracted after another group's
\* extraction had failed.
C4_FailureThenSuccess ==
    /\ fpc = "returned"
    /\ \E i, j \in 1..Len(ExtractCalls) :
         /\ i < j
         /\ ExtractCalls[i].invoice = NilPtr
         /\ ExtractCalls[j].invoice # NilPtr
    /\ Len(finalInvoices) = 1

\* C6: whatever map the grouping response parses to, ProcessFile returns; it
\* never faults on an index outside the page images.
C6_NoIndexFault ==
    groupErr = "" => fpc # "panicked"

-----------------------------------------------------------------------------
(* Properties of a batch (Spec). *)

\* The process is over: the collector is through, or a panic ended it.
BatchOver == cpc = "end" \/ crashed

\* The results reported for file f.
ResultsOf(f) == {j \in 1..Len(allResults) : allResults[j].SourceFile = f}

\* cp is what match-or-register made of the extracted counterparty orig: a
\* registry entry, or a registry entry merged with orig.
Deduplicated(cp, orig) ==
    \E i \in 1..Len(existingForSearch) :
       \/ cp = existingForSearch[i]
       \/ cp = mergeCounterparties(existingForSearch[i], orig)

\* C5 as stated: every invoice ProcessFile returned for a document is in the
\* reported results, with a counterparty that went through match-or-register.
C5_AllInvoicesReported ==
    cpc = "end"
        => \A f \in Files : \A i \in 1..Len(wret[f].invoices) :
             \E j \in ResultsOf(f) :
               /\ allResults[j].Invoice # NilPtr
               /\ allResults[j].Invoice[1].Number = wret[f].invoices[i].Number

\* C5 as amended: of the k >= 2 invoices ProcessFile returned for a document
\* only the first of the returned slice contributes: it is the document's
\* one Result and its counterparty goes through match-or-register; the other
\* k-1 invoices are in no Result.
C5_FirstInvoiceOnly ==
    cpc = "end"
        => \A f \in Files :
             Len(wret[f].invoices) >= 2
               => \E j \in ResultsOf(f) :
                    /\ ResultsOf(f) = {j}
                    /\ allResults[j].ErrorMessage = ""
                    /\ allResults[j].Invoice # NilPtr
                    /\ allResults[j].Invoice[1].Number = wret[f].invoices[1].Number
                    /\ Deduplicated(allResults[j].Invoice[1].Counterparty,
                                    wret[f].invoices[1].Counterparty)

\* A batch ended in which a document had given two different invoices.
C5_TwoInvoicesOneResult ==
    /\ cpc = "end"
    /\ \E f \in Files :
         /\ Len(wret[f].invoices) >= 2
         /\ wret[f].invoices[1].Number # wret[f].invoices[2].Number
         /\ Cardinality(ResultsOf(f)) = 1

\* C7: when the batch is over every document has exactly one Result, the
\* collector has handled one result per document, and no document kept the
\* others from being processed.
C7_OneResultPerDocument ==
    BatchOver
        => /\ \A f \in Files : Cardinality(ResultsOf(f)) = 1
           /\ Len(allResults) = NumFiles
           /\ successfulCount + errorCount = NumFiles

\* C8: the registry read for a match decision and the append that follows
\* are one unit: while a matching request is in flight the registry is the
\* list that went into the request, and no worker is still running that
\* could interleave.
C8_MatchAndAppendAtomic ==
    /\ cpc = "matching" => corpus = existingForSearch
    /\ cpc # "wait" => \A f \in Files : wpc[f] = "done"

\* A matching request over a non-empty registry is in flight.
C8_MatchInFlight ==
    /\ cpc = "matching"
    /\ Len(corpus) >= 1
    /\ corpus = existingForSearch

\* C9: FindCounterparty on an empty registry returns (nil, nil) and issues no
\* request, so the first successful result of a batch is registered as new
\* with no matching call made.
C9_EmptyRegistryFastPath ==
    /\ cpc = "matching" => Len(corpus) > 0
    /\ matchCalls > 0 => successfulCount >= 2
    /\ (successfulCount = 1 /\ cpc # "call")
          => /\ matchCalls = 0
             /\ findRet = [matched |-> NilPtr, err |-> ""]
             /\ Len(existingForSearch) = 1
             /\ Len(uniqueCounterparties) = 1

\* The first successful result has been registered, after an error result.
C9_FirstRegistered ==
    /\ successfulCount = 1
    /\ errorCount = 1
    /\ cpc = "end"
    /\ Len(uniqueCounterparties) = 1
    /\ matchCalls = 0

\* The last matching response names, with match_found, an id no entry of the
\* list it was asked about carries.
UnknownIdMatched ==
    /\ cpc # "matching"
    /\ lastResp.err = ""
    /\ lastResp.match_found
    /\ lastResp.matched_id \notin RegistryIds(corpus)

\* C10: on match_found = true with a matched_id that no entry of the list
\* carries, FindCounterparty returns an error and a nil counterparty.
C10_UnknownIdIsError ==
    UnknownIdMatched => (findRet.err # "" /\ findRet.matched = NilPtr)

\* FindCounterparty has returned on such a response.
C10_UnknownIdAnswered ==
    /\ UnknownIdMatched
    /\ lastResp.matched_id = "no-such-id"
    /\ findRet.err # ""

-----------------------------------------------------------------------------
(* Properties of what a document is reported as (SpecFile). *)

\* What ProcessFile returned, as its caller sees it.
ReturnedOutcome ==
    [kind |-> IF ferr # "" THEN "err" ELSE "ok", err |-> ferr, invoices |-> finalInvoices]

\* The Result the worker goroutine sends for the document.
FileResult == WorkerResult(1, ReturnedOutcome)

\* Extraction calls of the document that failed, and that gave an invoice.
FailedExtractions == {i \in 1..Len(ExtractCalls) : ExtractCalls[i].invoice = NilPtr}
GoodExtractions == {i \in 1..Len(ExtractCalls) : ExtractCalls[i].invoice # NilPtr}

\* C19: a document of which one group was extracted and another group
\* failed extraction is reported with a status other than plain success.
C19_PartialReported ==
    (fpc = "returned" /\ GoodExtractions # {} /\ FailedExtractions # {})
        => ReportStatus(FileResult) # "OK"

-----------------------------------------------------------------------------
(* Properties of ProcessFile's reads and extraction requests (SpecFile). *)

\* The extensions ProcessFile's switch has a case for.
SupportedExts == {".pdf", ".png", ".jpg", ".jpeg"}

\* C21: on a path whose lower-cased extension is none of .pdf, .png, .jpg,
\* .jpeg, ProcessFile returns the unsupported-file-type error and no invoice,
\* having rendered nothing, read nothing and called no external service.
C21_UnsupportedBeforeAnyCall ==
    (ToLower(pathExt) \notin SupportedExts /\ fpc # "idle")
        => /\ calls = <<>>
           /\ finalInvoices = <<>> /\ imageContents = <<>>
           /\ fpc \in {"start", "returned"}
           /\ fpc = "returned" => ferr = "unsupported file type"

\* ProcessFile returned on a .txt path.
C21_TxtRejected ==
    /\ fpc = "returned"
    /\ pathExt = ".txt"
    /\ ferr = "unsupported file type"
    /\ calls = <<>>

\* The extraction calls issued for group g.
GroupCalls(g) == {i \in 1..Len(ExtractCalls) : ExtractCalls[i].group = g}

\* C22: every group the loop has gone through had exactly one extraction
\* call, whose images are the page images at the ordinals
\* selectPagesForAnalysis returns for the group, in that order; when
\* ProcessFile returns, the loop has gone through every group.
C22_OneCallPerGroup ==
    PastGrouping
        => /\ \A g \in DOMAIN pageGroups :
                 Cardinality(GroupCalls(g)) = IF g \in todo THEN 0 ELSE 1
           /\ \A i \in 1..Len(ExtractCalls) :
                 LET sel == selectPagesForAnalysis(pageGroups[ExtractCalls[i].group])
                 IN  /\ Len(ExtractCalls[i].images) = Len(sel)
                     /\ \A k \in 1..Len(sel) :
                           ExtractCalls[i].images[k] = imageContents[sel[k] + 1]
           /\ fpc = "returned" => todo = {}

\* A 6-page document grouped into two groups of 3 pages gave two extraction
\* calls of 3 pages each.
C22_TwoGroupsOfThree ==
    /\ fpc = "returned"
    /\ Len(imageContents) = 6
    /\ Cardinality(DOMAIN pageGroups) = 2
    /\ \A g \in DOMAIN pageGroups : Len(pageGroups[g]) = 3
    /\ Len(ExtractCalls) = 2
    /\ \A i \in 1..Len(ExtractCalls) : Len(ExtractCalls[i].images) = 3
    /\ ExtractCalls[1].images # ExtractCalls[2].images

\* C27: every extraction request carries at least one page image.
C27_ExtractionHasImage ==
    \A i \in 1..Len(ExtractCalls) : Len(ExtractCalls[i].images) >= 1

-----------------------------------------------------------------------------
(* Properties of the collector's match-or-register step (Spec). *)

\* C11: when the matching response names, with match_found, an id that is
\* not in the registry, the collector does not register the counterparty as
\* a new entry: the registry stays the list the request was made with.
C11_InconsistencyNotRegistered ==
    (UnknownIdMatched /\ cpc = "recv") => existingForSearch = corpus

\* C15: after a match the registry holds the merged counterparty: the entry
\* with the matched id carries every field the merge filled in.
C15_MergedWrittenBack ==
    (cpc # "matching" /\ findRet.matched # NilPtr)
        => \E i \in 1..Len(existingForSearch) : existingForSearch[i] = findRet.matched[1]

\* The step in which the matching call returns to the collector.
MatchReturned == cpc = "matching" /\ cpc' = "recv"

\* The counterparty of the result in hand once the step is over.
ResCounterpartyAfter == allResults'[Len(allResults')].Invoice[1].Counterparty

\* C16: when the matching call fails with a transport or parse error, the
\* counterparty gets an identifier no registry entry carries, is appended to
\* the registry, the result stays a successful one and the batch goes on.
C16_MatchFailureRegistersNew ==
    [][(MatchReturned /\ lastResp'.err \in CallErrs)
          => /\ ResCounterpartyAfter.ID # ""
             /\ ResCounterpartyAfter.ID \notin RegistryIds(existingForSearch)
             /\ existingForSearch' = Append(existingForSearch, ResCounterpartyAfter)
             /\ Len(uniqueCounterparties') = Len(uniqueCounterparties) + 1
             /\ allResults'[Len(allResults')].ErrorMessage = ""
             /\ successfulCount' = successfulCount /\ errorCount' = errorCount
             /\ ~crashed']_vars

\* C17: in every state of a batch, reporter or web, every registry entry has
\* a non-empty id and no two entries share an id.
C17_RegistryIdsDistinct ==
    /\ \A i \in 1..Len(existingForSearch) : existingForSearch[i].ID # ""
    /\ \A i, j \in 1..Len(existingForSearch) :
          existingForSearch[i].ID = existingForSearch[j].ID => i = j

\* C18: when FindCounterparty returns a match, the result's counterparty
\* becomes the merged record, which carries the matched entry's id, name and
\* address, and the registry is left as it was.
C18_MatchReplacesNoAppend ==
    [][(MatchReturned /\ findRet'.matched # NilPtr)
          => /\ ResCounterpartyAfter = findRet'.matched[1]
             /\ \E i \in 1..Len(existingForSearch) :
                   /\ existingForSearch[i].ID = lastResp'.matched_id
                   /\ ResCounterpartyAfter =
                        mergeCounterparties(existingForSearch[i], ResCounterparty)
                   /\ ResCounterpartyAfter.ID = existingForSearch[i].ID
                   /\ ResCounterpartyAfter.Name = existingForSearch[i].Name
                   /\ ResCounterpartyAfter.Address = existingForSearch[i].Address
             /\ existingForSearch' = existingForSearch
             /\ uniqueCounterparties' = uniqueCounterparties]_vars

\* The web collector matched the second document's counterparty to the
\* first one's entry: the result carries that entry's id, name and address
\* and the IBAN of its own extraction, and the registry has its one entry.
C18_MatchedToFirstEntry ==
    /\ variant = "web"
    /\ cpc = "recv"
    /\ successfulCount = 2
    /\ findRet.matched # NilPtr
    /\ Len(existingForSearch) = 1
    /\ allResults[Len(allResults)].Invoice # NilPtr
    /\ LET cp == allResults[Len(allResults)].Invoice[1].Counterparty IN
       /\ cp = findRet.matched[1]
       /\ cp.ID = UUIDs[1] /\ cp.ID = existingForSearch[1].ID
       /\ cp.Name = AcmeShort.Name /\ cp.Address = AcmeShort.Address
       /\ cp.IBAN = AcmeLong.IBAN

-----------------------------------------------------------------------------
(* Properties of the fan-out and of the registry (Spec, SpecLive). *)

\* The goroutines that have returned.
DoneWorkers == {f \in Files : wpc[f] = "done"}

Successful == {j \in 1..Len(allResults) : allResults[j].ErrorMessage = ""}

\* C28: at the end of a web batch the counterparty id of every successful
\* result is non-empty and is the id of exactly one entry of the reported
\* registry.
C28_ResultIdsInRegistry ==
    (variant = "web" /\ cpc = "end")
        => \A j \in Successful :
             LET id == allResults[j].Invoice[1].Counterparty.ID IN
             /\ id # ""
             /\ Cardinality({i \in 1..Len(uniqueCounterparties) :
                               uniqueCounterparties[i].Counterparty.ID = id}) = 1

\* A web batch ended whose second result went through the branch of a
\* failed matching call.
C28_EndedAfterMatchFailure ==
    /\ variant = "web"
    /\ cpc = "end"
    /\ Cardinality(Successful) = 2
    /\ lastResp.err \in CallErrs
    /\ Len(uniqueCounterparties) = 2

\* C30: existingForSearch and uniqueCounterparties have the same length and
\* the same counterparty at each index, and each entry's SourceFile is the
\* file of the result whose counterparty was appended.
C30_RegistriesInLockstep ==
    /\ Len(existingForSearch) = Len(uniqueCounterparties)
    /\ \A i \in 1..Len(uniqueCounterparties) :
          /\ uniqueCounterparties[i].Counterparty = existingForSearch[i]
          /\ \E j \in Successful :
                /\ allResults[j].SourceFile = uniqueCounterparties[i].SourceFile
                /\ allResults[j].Invoice[1].Counterparty = existingForSearch[i]

\* Two results of different files have each been appended to both lists.
C30_TwoEntriesAppended ==
    /\ cpc = "end"
    /\ Len(existingForSearch) = 2
    /\ Len(uniqueCounterparties) = 2
    /\ uniqueCounterparties[1].SourceFile # uniqueCounterparties[2].SourceFile
    /\ existingForSearch[1] # existingForSearch[2]

-----------------------------------------------------------------------------
(* Properties of a web job (SpecJob). *)

\* The job is in the store.
JobCreated == JobId \in DOMAIN jobs

\* The positions at which a handler reads fields of the job.
FieldReadPcs == {"encode", "check", "read"}

\* C24: every goroutine that is about to read or write a field of the job
\* holds jobsMutex: a handler reads the job's fields only inside its locked
\* section, so never while a worker or processInvoices is updating the job.
C24_FieldAccessUnderMutex ==
    \A h \in DOMAIN hpc : hpc[h] \in FieldReadPcs => jobsMutex = h

C26_ProcessedWithinTotal ==
    JobCreated
        => /\ jobs[JobId].ProcessedFiles <= jobs[JobId].TotalFiles
           /\ jobs[JobId].Status = "Completed"
                 => jobs[JobId].ProcessedFiles = jobs[JobId].TotalFiles

\* A job with several files was completed with all of them counted.
C26_AllFilesCounted ==
    /\ JobCreated
    /\ jobs[JobId].Status = "Completed"
    /\ jobs[JobId].TotalFiles = NumFiles
    /\ jobs[JobId].ProcessedFiles = NumFiles

-----------------------------------------------------------------------------
(* Properties of mergeCounterparties (SpecMerge). *)

\* C12: for every optional field f, the merged record's f is newData's f when
\* existing's f is empty, and existing's f when it is not.
C12_OptionalFieldsFilled ==
    mergePc = "out"
        => \A f \in OptionalFields :
             merged[f] = IF mergeExisting[f] = "" THEN mergeNew[f] ELSE mergeExisting[f]

\* A merge filled one empty optional field and kept a populated one against
\* a different text in newData.
C12_FilledAndKept ==
    /\ mergePc = "out"
    /\ \E f, g \in OptionalFields :
         /\ mergeExisting[f] = "" /\ mergeNew[f] # "" /\ merged[f] = mergeNew[f]
         /\ mergeExisting[g] # "" /\ mergeNew[g] # "" /\ mergeNew[g] # mergeExisting[g]
         /\ merged[g] = mergeExisting[g]

C14_MergeIdempotent ==
    (mergePc = "out" /\ mergeNew = mergeExisting) => merged = mergeExisting

\* A counterparty with an id and a populated optional field was merged into
\* itself.
C14_MergedIntoItself ==
    /\ mergePc = "out"
    /\ mergeNew = mergeExisting
    /\ mergeExisting.ID # ""
    /\ \E f \in OptionalFields : mergeExisting[f] # ""
    /\ merged = mergeExisting

=============================================================================
